---- MODULE Spec2Model ----
(***************************************************************************)
(* The proof-of-work miner of shitcoin/miner.py: the Miner object's        *)
(* lifecycle (start_mining, stop_mining), its lock-protected hand-off      *)
(* fields (target_block, mined_block, hashrate), the two events and the    *)
(* mining thread's loop (Miner.mine), one action per atomic step.  The     *)
(* body of a "with self.lock" block is one action, taken when the lock is  *)
(* free, and the end of the block a second one; every statement between    *)
(* two accesses of shared state belongs to the action of the earlier one.  *)
(***************************************************************************)
EXTENDS Integers, Sequences, FiniteSets, TLC

\* ------------------------------------------------------------------ bounds
MaxBlocks == 2      \* candidate blocks built by retarget() in one run
MaxNonce == 3       \* a thread's nonce counter stops at this
MaxSeed == 1        \* the thread's urandom seed is in 0..MaxSeed
BatchSize == 2      \* stands for range(100000)
MaxDiff == 1        \* get_next_diff answers 1..MaxDiff
MaxHashLen == 2     \* digest lengths of the threshold specification
Delta == 2          \* digests drawn within Delta of the threshold
MaxHeight == 4      \* blk.get_height() is in 0..MaxHeight
MaxHalvingLen == 2  \* REWARD_HALVING_LEN is in 1..MaxHalvingLen
MaxReward == 5      \* INITIAL_REWARD is in 0..MaxReward
MaxPending == 2     \* transactions in the mempool
MaxFees == 2        \* mempool.total_fees is in 0..MaxFees

\* --------------------------------------------------------------- constants
None == 0           \* Python's None, and the null block reference
HASH_LEN == 1       \* crypto.HASH_LEN, in bytes
LOCAL_DIFF_REDUCTION == 10
MIN_LOCAL_DIFF == 1
NONCE_LEN == 8      \* struct.pack('>Q', nonce)

VARIABLES
    mining_thread,      \* self.mining_thread: None or a thread id
    block_cb,           \* registrations of retarget_callback at the blockchain
    tx_cb,              \* registrations of retarget_callback at the mempool
    target_block,       \* self.target_block: None or a block reference
    hashrate,           \* self.hashrate, as <<hashes, elapsed>>
    mined_block,        \* self.mined_block: None or a block reference
    stop_event,         \* self.stop_event
    retarget_event,     \* self.retarget_event
    reduce_local_diff,  \* self.reduce_local_diff
    blocks,             \* the Block objects built so far, by reference
    ctl,                \* where the caller of start_mining/stop_mining stands
    threads,            \* each mining thread: where it stands, its locals, and
                        \* two history fields: pending, the candidate published
                        \* while it searched and not read since, since_stop,
                        \* the batches it began since stop_event.set(), and
                        \* hashed, the prefix and nonce of its latest hash
    ret,                \* the outcome of the last API call
    taken,              \* history: how often get_mined_block returned each block
    hit_test,           \* the threshold specification's input and result
    candidate,          \* the candidate specification's input and result
    lock                \* self.lock: the holders, each inside a with block

vars == <<mining_thread, block_cb, tx_cb, target_block, hashrate, mined_block,
          stop_event, retarget_event, reduce_local_diff, blocks, ctl, threads,
          ret, taken, hit_test, candidate, lock>>

\* The identities of the mining threads alive at once: the one start_mining
\* spawned last and one that outlived the join of an earlier stop_mining
ThreadIds == {1, 2}
Diffs == 1..MaxDiff
Seeds == 0..MaxSeed
Unread == 0 - 1

Max(a, b) == IF a >= b THEN a ELSE b
Min(a, b) == IF a <= b THEN a ELSE b

\* ------------------------------------------------------- the pure functions

\* x << n
RECURSIVE ShiftLeft(_, _)
ShiftLeft(x, n) == IF n = 0 THEN x ELSE ShiftLeft(2 * x, n - 1)

\* int.from_bytes(h, byteorder='big')
RECURSIVE IntFromBytesBig(_)
IntFromBytesBig(h) ==
    IF h = <<>> THEN 0
    ELSE 256 * IntFromBytesBig(SubSeq(h, 1, Len(h) - 1)) + h[Len(h)]

\* n.to_bytes(len, byteorder='big'): what struct.pack('>Q', n) gives for len = 8
RECURSIVE IntToBytesBig(_, _)
IntToBytesBig(n, len) ==
    IF len = 0 THEN <<>>
    ELSE Append(IntToBytesBig(n \div 256, len - 1), n % 256)

struct_pack_Q(nonce) == IntToBytesBig(nonce, NONCE_LEN)

\* diff = max(diff - 10, 1) when reduce_local_diff
LocalDiff(diff, reduce) ==
    IF reduce THEN Max(diff - LOCAL_DIFF_REDUCTION, MIN_LOCAL_DIFF) ELSE diff

\* target_hash = 1 << (8 * HASH_LEN - diff)
TargetHash(diff, reduce, hash_len) ==
    ShiftLeft(1, 8 * hash_len - LocalDiff(diff, reduce))

\* the comparison with <= for <
IsHitLe(h, target_hash) == IntFromBytesBig(h) <= target_hash

\* int.from_bytes(h, byteorder='big') < target_hash
IsHit(h, target_hash) == IntFromBytesBig(h) < target_hash

\* One byte of the digest: a fixed mixing function of the input bytes.
RECURSIVE Mix(_, _, _)
Mix(bytes, k, acc) ==
    IF bytes = <<>> THEN acc
    ELSE LET b == Head(bytes)
         IN  Mix(Tail(bytes), k,
                 ((acc + b) * (acc + b + k) * 13 + b * 101 + k) % 256)

\* crypto.h(data): a digest of hash_len bytes
crypto_h(data, hash_len) == [k \in 1..hash_len |-> Mix(data, k, k)]

\* Block.serialize_header().get_bytes(): the header fields, the nonce last
serialize_header(blk) == <<blk.diff, blk.merkle_root>> \o struct_pack_Q(blk.nonce)

\* prefix = target_block.serialize_header().get_bytes()[:-8]
Prefix(blk) ==
    LET bytes == serialize_header(blk) IN SubSeq(bytes, 1, Len(bytes) - NONCE_LEN)

\* ---------------------------------------------------------------- the state

NoRet == [op |-> "none", exc |-> "", blk |-> None, rate |-> <<0, 1>>]
Ret(op, exc) == [op |-> op, exc |-> exc, blk |-> None, rate |-> <<0, 1>>]

NoThread ==
    [pc |-> "unborn", target_block |-> None, nonce |-> 0, start_nonce |-> 0,
     prefix |-> <<>>, target_hash |-> 0, pending |-> None,
     since_stop |-> Unread, hashed |-> <<>>]

\* The locals of a thread are gone once it has returned, or died of an
\* uncaught exception; those of a live thread are cleared where the code
\* cannot read them again before it assigns them.
Returned == [NoThread EXCEPT !.pc = "returned"]
Crashed == [NoThread EXCEPT !.pc = "crashed"]

NoHitTest ==
    [diff |-> 0, reduce |-> FALSE, hash_len |-> 0, value |-> 0, h |-> <<>>,
     target_hash |-> 0, accepted |-> FALSE, done |-> FALSE]

\* Block() before retarget fills it in, with the inputs retarget reads: the
\* height, the two settings, the mempool
NoCandidate ==
    [height |-> 0, initial_reward |-> 0, reward_halving_len |-> 1,
     mempool |-> [transactions |-> <<>>, total_fees |-> 0],
     txs |-> <<>>, done |-> FALSE]

\* A thread that has been started and has neither returned nor died
Alive(t) == threads[t].pc \notin {"unborn", "returned", "crashed"}

\* The thread ids free for a new Thread object
Free == {t \in ThreadIds : ~Alive(t)}

\* Miner.__init__
InitMiner ==
    /\ mining_thread = None
    /\ block_cb = 0
    /\ tx_cb = 0
    /\ target_block = None
    /\ hashrate = <<0, 1>>
    /\ mined_block = None
    /\ stop_event = FALSE
    /\ retarget_event = FALSE
    /\ reduce_local_diff = FALSE
    /\ blocks = <<>>
    /\ ctl = "idle"
    /\ threads = [t \in ThreadIds |-> NoThread]
    /\ ret = NoRet
    /\ taken = [b \in 1..MaxBlocks |-> 0]
    /\ lock = {}

Init ==
    /\ InitMiner
    /\ hit_test = NoHitTest
    /\ candidate = NoCandidate

\* ------------------------------------------------------------ self.lock

\* Who may hold self.lock: a mining thread, or the thread that calls the
\* method named
Thread(t) == <<"mine", t>>
Caller(method) == <<method, 0>>
Holders ==
    {Thread(t) : t \in ThreadIds}
        \cup {Caller(method) : method \in {"start_mining", "retarget_callback",
                                            "get_hashrate", "get_mined_block"}}

\* a lock that admits a second holder
AcquireAnyway(h) == lock' = lock \cup {h}

\* with self.lock: entered once nobody holds the lock.  The block's body is
\* part of the step that enters the block.
Acquire(h) ==
    /\ lock = {}
    /\ lock' = lock \cup {h}

\* the end of a with self.lock block
Release(h) ==
    /\ h \in lock
    /\ lock' = lock \ {h}
    /\ UNCHANGED <<mining_thread, block_cb, tx_cb, target_block, hashrate,
                   mined_block, stop_event, retarget_event, reduce_local_diff,
                   blocks, ctl, threads, ret, taken, hit_test, candidate>>

\* statements that run inside the with block as well
Anywhere(h) == TRUE

\* h is outside every with self.lock block
Outside(h) == h \notin lock

\* -------------------------------------------------------- Miner.retarget

\* Block() as retarget fills it in; the coinbase's random input index makes
\* the merkle root, hence the header, differ from every earlier block's.
NewBlock(diff) == [diff |-> diff, nonce |-> 0, merkle_root |-> Len(blocks) + 1]

\* with self.lock: self.target_block = blk; self.retarget_event.set()
Publish(blk) ==
    /\ blocks' = Append(blocks, blk)
    /\ target_block' = Len(blocks) + 1
    /\ retarget_event' = TRUE

\* Miner.retarget: build a block on the current head, then publish it
retarget(h) ==
    /\ Len(blocks) < MaxBlocks
    /\ Outside(h)
    /\ Acquire(h)
    /\ \E diff \in Diffs : Publish(NewBlock(diff))
    /\ threads' = [t \in ThreadIds |->
                     IF Alive(t) /\ threads[t].target_block # None
                     THEN [threads[t] EXCEPT !.pending = Len(blocks) + 1]
                     ELSE threads[t]]

\* retarget as the blockchain or the mempool calls it back
retarget_callback ==
    /\ block_cb > 0 \/ tx_cb > 0
    /\ retarget(Caller("retarget_callback"))
    /\ UNCHANGED <<mining_thread, block_cb, tx_cb, hashrate, mined_block,
                   stop_event, reduce_local_diff, ctl, ret, taken, hit_test,
                   candidate>>

\* ---------------------------------------------------- Miner.start_mining

\* if self.mining_thread is not None: raise MinerIsRunningException
start_mining_raise ==
    /\ ctl = "idle"
    /\ mining_thread # None
    /\ ret' = Ret("start_mining", "MinerIsRunningException")
    /\ UNCHANGED <<mining_thread, block_cb, tx_cb, target_block, hashrate,
                   mined_block, stop_event, retarget_event, reduce_local_diff,
                   blocks, ctl, threads, taken, hit_test, candidate, lock>>

\* register both callbacks, clear both events
start_mining_register ==
    /\ ctl = "idle"
    /\ Len(blocks) < MaxBlocks
    /\ Free # {}
    /\ block_cb' = block_cb + 1
    /\ tx_cb' = tx_cb + 1
    /\ stop_event' = FALSE
    /\ retarget_event' = FALSE
    /\ ctl' = "start_retarget"
    /\ UNCHANGED <<mining_thread, target_block, hashrate, mined_block,
                   reduce_local_diff, blocks, threads, ret, taken, hit_test,
                   candidate, lock>>

\* start_mining without its check of self.mining_thread
start_mining_begin_unchecked == start_mining_register

start_mining_begin ==
    /\ mining_thread = None
    /\ start_mining_register

\* self.retarget()
start_mining_retarget ==
    /\ ctl = "start_retarget"
    /\ retarget(Caller("start_mining"))
    /\ ctl' = "start_spawn"
    /\ UNCHANGED <<mining_thread, block_cb, tx_cb, hashrate, mined_block,
                   stop_event, reduce_local_diff, ret, taken, hit_test,
                   candidate>>

\* self.mining_thread = Thread(...); self.mining_thread.start(), and the new
\* thread's nonce = int.from_bytes(urandom(4), byteorder='big')
start_mining_spawn ==
    /\ ctl = "start_spawn"
    /\ Outside(Caller("start_mining"))
    /\ LET new == CHOOSE t \in Free : \A u \in Free : t <= u
       IN  /\ \E seed \in Seeds :
                threads' = [threads EXCEPT ![new] =
                               [NoThread EXCEPT !.pc = "begin", !.nonce = seed]]
           /\ mining_thread' = new
    /\ ctl' = "idle"
    /\ ret' = Ret("start_mining", "")
    /\ UNCHANGED <<block_cb, tx_cb, target_block, hashrate, mined_block,
                   stop_event, retarget_event, reduce_local_diff, blocks,
                   taken, hit_test, candidate, lock>>

start_mining ==
    \/ start_mining_raise
    \/ start_mining_begin
    \/ start_mining_retarget
    \/ start_mining_spawn

\* ----------------------------------------------------- Miner.stop_mining

\* if self.mining_thread is None: raise MinerIsNotRunningException
stop_mining_raise ==
    /\ ctl = "idle"
    /\ mining_thread = None
    /\ ret' = Ret("stop_mining", "MinerIsNotRunningException")
    /\ UNCHANGED <<mining_thread, block_cb, tx_cb, target_block, hashrate,
                   mined_block, stop_event, retarget_event, reduce_local_diff,
                   blocks, ctl, threads, taken, hit_test, candidate, lock>>

\* unregister both callbacks, self.stop_event.set()
stop_mining_unregister ==
    /\ ctl = "idle"
    /\ block_cb' = block_cb - 1
    /\ tx_cb' = tx_cb - 1
    /\ stop_event' = TRUE
    /\ ctl' = "stop_join"
    /\ threads' = [t \in ThreadIds |->
                     IF Alive(t) THEN [threads[t] EXCEPT !.since_stop = 0]
                     ELSE threads[t]]
    /\ UNCHANGED <<mining_thread, target_block, hashrate, mined_block,
                   retarget_event, reduce_local_diff, blocks, ret, taken,
                   hit_test, candidate, lock>>

\* stop_mining without its check of self.mining_thread
stop_mining_begin_unchecked == stop_mining_unregister

stop_mining_begin ==
    /\ mining_thread # None
    /\ stop_mining_unregister

\* stop_mining without self.mining_thread = None
stop_mining_join_keeps_thread ==
    /\ ctl = "stop_join"
    /\ ctl' = "idle"
    /\ ret' = Ret("stop_mining", "")
    /\ UNCHANGED <<mining_thread, block_cb, tx_cb, target_block, hashrate,
                   mined_block, stop_event, retarget_event, reduce_local_diff,
                   blocks, threads, taken, hit_test, candidate, lock>>

\* self.mining_thread.join(10) returns because the thread ended or because
\* the ten seconds passed with the thread still alive (is_alive() is then
\* logged); either way self.mining_thread = None
stop_mining_join ==
    /\ ctl = "stop_join"
    /\ mining_thread' = None
    /\ ctl' = "idle"
    /\ ret' = Ret("stop_mining", "")
    /\ UNCHANGED <<block_cb, tx_cb, target_block, hashrate, mined_block,
                   stop_event, retarget_event, reduce_local_diff, blocks,
                   threads, taken, hit_test, candidate, lock>>

stop_mining ==
    \/ stop_mining_raise
    \/ stop_mining_begin
    \/ stop_mining_join

\* ---------------------------------------------------- Miner.get_hashrate

\* if self.mining_thread is None: raise MinerIsNotRunningException
get_hashrate_raise ==
    /\ Outside(Caller("get_hashrate"))
    /\ mining_thread = None
    /\ ret' = Ret("get_hashrate", "MinerIsNotRunningException")
    /\ UNCHANGED <<mining_thread, block_cb, tx_cb, target_block, hashrate,
                   mined_block, stop_event, retarget_event, reduce_local_diff,
                   blocks, ctl, threads, taken, hit_test, candidate, lock>>

\* with self.lock: return self.hashrate
get_hashrate_return ==
    /\ Outside(Caller("get_hashrate"))
    /\ mining_thread # None
    /\ Acquire(Caller("get_hashrate"))
    /\ ret' = [Ret("get_hashrate", "") EXCEPT !.rate = hashrate]
    /\ UNCHANGED <<mining_thread, block_cb, tx_cb, target_block, hashrate,
                   mined_block, stop_event, retarget_event, reduce_local_diff,
                   blocks, ctl, threads, taken, hit_test, candidate>>

get_hashrate ==
    \/ get_hashrate_raise
    \/ get_hashrate_return

\* -------------------------------------------------- Miner.get_mined_block

\* with self.lock: blk = self.mined_block; self.mined_block = None
get_mined_block ==
    /\ Outside(Caller("get_mined_block"))
    /\ Acquire(Caller("get_mined_block"))
    /\ ret' = [Ret("get_mined_block", "") EXCEPT !.blk = mined_block]
    /\ mined_block' = None
    /\ taken' = IF mined_block = None THEN taken
                ELSE [taken EXCEPT ![mined_block] = @ + 1]
    /\ UNCHANGED <<mining_thread, block_cb, tx_cb, target_block, hashrate,
                   stop_event, retarget_event, reduce_local_diff, blocks, ctl,
                   threads, hit_test, candidate>>

\* -------------------------------------------------------------- Miner.mine

\* time.time() - start_time, in units of one batch's duration
Elapsed == {1}

\* How many of the next n nonces miss before the first hit
RECURSIVE Misses(_, _, _, _)
Misses(prefix, nonce, target_hash, n) ==
    IF n = 0 \/ IsHit(crypto_h(prefix \o struct_pack_Q(nonce), HASH_LEN),
                      target_hash)
    THEN 0
    ELSE 1 + Misses(prefix, nonce + 1, target_hash, n - 1)

\* while target_block is None:
\*     with self.lock: target_block = self.target_block
\*                     self.retarget_event.clear()
mine_wait(t) ==
    /\ threads[t].pc \in {"begin", "wait"}
    /\ Outside(Thread(t))
    /\ Acquire(Thread(t))
    /\ threads' = [threads EXCEPT ![t].target_block = target_block,
                                  ![t].pending = None,
                                  ![t].pc = "wait_stop"]
    /\ retarget_event' = FALSE
    /\ UNCHANGED <<mining_thread, block_cb, tx_cb, target_block, hashrate,
                   mined_block, stop_event, reduce_local_diff, blocks, ctl,
                   ret, taken, hit_test, candidate>>

\* if self.stop_event.is_set(): return; then, once a target is held, the
\* prefix and target_hash of the search
mine_wait_stop(t) ==
    /\ threads[t].pc = "wait_stop"
    /\ Outside(Thread(t))
    /\ threads' =
         IF stop_event THEN [threads EXCEPT ![t] = Returned]
         ELSE IF threads[t].target_block = None
         THEN [threads EXCEPT ![t].pc = "wait"]
         ELSE LET blk == blocks[threads[t].target_block]
              IN  [threads EXCEPT
                     ![t].prefix = Prefix(blk),
                     ![t].target_hash =
                         TargetHash(blk.diff, reduce_local_diff, HASH_LEN),
                     ![t].pc = "loop"]
    /\ UNCHANGED <<mining_thread, block_cb, tx_cb, target_block, hashrate,
                   mined_block, stop_event, retarget_event, reduce_local_diff,
                   blocks, ctl, ret, taken, hit_test, candidate, lock>>

\* while not self.retarget_event.is_set(): start a batch; else back to the
\* top of the outer loop, target_block = None
mine_loop(t) ==
    /\ threads[t].pc = "loop"
    /\ Outside(Thread(t))
    /\ threads' =
         IF retarget_event
         THEN [threads EXCEPT ![t].target_block = None,
                              ![t].prefix = <<>>,
                              ![t].target_hash = 0,
                              ![t].pc = "wait"]
         ELSE [threads EXCEPT
                 ![t].start_nonce = threads[t].nonce,
                 ![t].since_stop = IF @ = Unread THEN @ ELSE Min(@ + 1, 2),
                 ![t].pc = "batch"]
    /\ UNCHANGED <<mining_thread, block_cb, tx_cb, target_block, hashrate,
                   mined_block, stop_event, retarget_event, reduce_local_diff,
                   blocks, ctl, ret, taken, hit_test, candidate, lock>>

\* the nonce stored after nonce += 1
set_nonce_next(blk, nonce) == [blk EXCEPT !.nonce = nonce + 1]

\* target_block.nonce = nonce
set_nonce(blk, nonce) == [blk EXCEPT !.nonce = nonce]

\* for _ in range(100000): hash and compare, nonce += 1 after each miss; on
\* a hit target_block.nonce = nonce (an AttributeError, which ends the
\* thread, when target_block is None).  The hashes of a batch touch no shared
\* state, so the batch up to its hit, or to its end, is one step.
mine_batch(t) ==
    /\ threads[t].pc = "batch"
    /\ Outside(Thread(t))
    /\ LET me == threads[t]
           m == Misses(me.prefix, me.nonce, me.target_hash, BatchSize)
           last == IF m < BatchSize THEN me.nonce + m ELSE me.nonce + m - 1
       IN  /\ me.nonce + m <= MaxNonce
           /\ IF m < BatchSize
              THEN IF me.target_block = None
                   THEN /\ threads' = [threads EXCEPT ![t] = Crashed]
                        /\ UNCHANGED blocks
                   ELSE /\ blocks' = [blocks EXCEPT ![me.target_block] =
                                        set_nonce(@, me.nonce + m)]
                        /\ threads' = [threads EXCEPT
                                          ![t].nonce = me.nonce + m,
                                          ![t].hashed = <<me.prefix, last>>,
                                          ![t].pc = "found"]
              ELSE /\ threads' = [threads EXCEPT
                                     ![t].nonce = me.nonce + m,
                                     ![t].hashed = <<me.prefix, last>>,
                                     ![t].pc = "rate"]
                   /\ UNCHANGED blocks
    /\ UNCHANGED <<mining_thread, block_cb, tx_cb, target_block, hashrate,
                   mined_block, stop_event, retarget_event, reduce_local_diff,
                   ctl, ret, taken, hit_test, candidate, lock>>

\* with self.lock: self.mined_block = target_block
\*                 self.target_block = None
\*                 self.retarget_event.set()
\* target_block = None; break
mine_found(t) ==
    /\ threads[t].pc = "found"
    /\ Outside(Thread(t))
    /\ Acquire(Thread(t))
    /\ mined_block' = threads[t].target_block
    /\ target_block' = None
    /\ retarget_event' = TRUE
    /\ threads' = [threads EXCEPT ![t].target_block = None, ![t].pc = "rate"]
    /\ UNCHANGED <<mining_thread, block_cb, tx_cb, hashrate, stop_event,
                   reduce_local_diff, blocks, ctl, ret, taken, hit_test,
                   candidate>>

\* hashrate = (nonce - start_nonce) / (time.time() - start_time)
\* with self.lock: self.hashrate = hashrate
mine_rate(t) ==
    /\ threads[t].pc = "rate"
    /\ Outside(Thread(t))
    /\ Acquire(Thread(t))
    /\ \E elapsed \in Elapsed :
         hashrate' = <<threads[t].nonce - threads[t].start_nonce, elapsed>>
    /\ threads' = [threads EXCEPT ![t].start_nonce = 0,
                                  ![t].pc = "stop_check"]
    /\ UNCHANGED <<mining_thread, block_cb, tx_cb, target_block, mined_block,
                   stop_event, retarget_event, reduce_local_diff, blocks, ctl,
                   ret, taken, hit_test, candidate>>

\* if self.stop_event.is_set(): return
mine_stop(t) ==
    /\ threads[t].pc = "stop_check"
    /\ Outside(Thread(t))
    /\ threads' = IF stop_event THEN [threads EXCEPT ![t] = Returned]
                   ELSE [threads EXCEPT ![t].pc = "loop"]
    /\ UNCHANGED <<mining_thread, block_cb, tx_cb, target_block, hashrate,
                   mined_block, stop_event, retarget_event, reduce_local_diff,
                   blocks, ctl, ret, taken, hit_test, candidate, lock>>

mine(t) ==
    \/ mine_wait(t)
    \/ mine_wait_stop(t)
    \/ mine_loop(t)
    \/ mine_batch(t)
    \/ mine_found(t)
    \/ mine_rate(t)
    \/ mine_stop(t)

\* ------------------------------------------------------ the specification

Next ==
    \/ start_mining
    \/ stop_mining
    \/ get_hashrate
    \/ get_mined_block
    \/ retarget_callback
    \/ \E t \in ThreadIds : mine(t)
    \/ \E h \in Holders : Release(h)

Spec == Init /\ [][Next]_vars


\* ------------------------------------- the threshold and the hit test alone

\* The digests tried against the threshold of (diff, reduce, hash_len): the
\* least and the greatest digest, and those within Delta of the threshold
DigestValues(diff, reduce, hash_len) ==
    LET top == 2 ^ (8 * hash_len)
        near == 2 ^ (8 * hash_len - LocalDiff(diff, reduce))
    IN  {v \in {0, top - 1} \cup {near + k : k \in (0 - Delta)..Delta} :
           0 <= v /\ v < top}

HitTests ==
    UNION {UNION {UNION {
        {[NoHitTest EXCEPT !.diff = diff, !.reduce = reduce,
                           !.hash_len = hash_len, !.value = v,
                           !.h = IntToBytesBig(v, hash_len)] :
           v \in DigestValues(diff, reduce, hash_len)} :
        reduce \in BOOLEAN} :
        diff \in 0..(8 * hash_len)} :
        hash_len \in 1..MaxHashLen}

InitThreshold ==
    /\ InitMiner
    /\ hit_test \in HitTests
    /\ candidate = NoCandidate

\* mine's target_hash = 1 << (8 * HASH_LEN - diff) and its test of one digest,
\* int.from_bytes(h, byteorder='big') < target_hash
mine_compare ==
    /\ ~hit_test.done
    /\ LET target_hash ==
             TargetHash(hit_test.diff, hit_test.reduce, hit_test.hash_len)
       IN  hit_test' = [hit_test EXCEPT
                          !.target_hash = target_hash,
                          !.accepted = IsHit(hit_test.h, target_hash),
                          !.done = TRUE]
    /\ UNCHANGED <<mining_thread, block_cb, tx_cb, target_block, hashrate,
                   mined_block, stop_event, retarget_event, reduce_local_diff,
                   blocks, ctl, threads, ret, taken, candidate, lock>>

NextThreshold == mine_compare

SpecThreshold == InitThreshold /\ [][NextThreshold]_vars


\* ------------------------------------------- the candidate block alone

\* the fees added before the halving
RewardFeesHalved(height, initial_reward, reward_halving_len, total_fees) ==
    (initial_reward + total_fees) \div ShiftLeft(1, height \div reward_halving_len)

\* reward = INITIAL_REWARD // (2 ** (blk.get_height() // REWARD_HALVING_LEN))
\* reward += self.mempool.total_fees
Reward(height, initial_reward, reward_halving_len, total_fees) ==
    (initial_reward \div ShiftLeft(1, height \div reward_halving_len))
        + total_fees

\* coinbase = Transaction(), its one output Output(reward, self.pubkey) and
\* its one dummy input, of a random index
Coinbase(reward, index) ==
    [txid |-> 0,
     inputs |-> <<[index |-> index]>>,
     outputs |-> <<[amount |-> reward, pubkey |-> "pubkey"]>>]

\* A transaction of the mempool
Pending(txid) == [txid |-> txid, inputs |-> <<>>, outputs |-> <<>>]

\* Block.add_transactions(txs): the transactions join the block's list in
\* the order given
Block_add_transactions(txs, more) == txs \o more

\* mempool.transactions.values(): the pending transactions in the dict's
\* order, every order of every set of up to MaxPending transactions
Snapshots ==
    {s \in UNION {[1..n -> 1..MaxPending] : n \in 0..MaxPending} :
       \A i, j \in DOMAIN s : i # j => s[i] # s[j]}

Candidates ==
    UNION {UNION {UNION {UNION {
        {[NoCandidate EXCEPT
            !.height = height,
            !.initial_reward = initial_reward,
            !.reward_halving_len = reward_halving_len,
            !.mempool = [transactions |-> [i \in DOMAIN s |-> Pending(s[i])],
                         total_fees |-> total_fees]] :
           s \in Snapshots} :
        total_fees \in 0..MaxFees} :
        initial_reward \in 0..MaxReward} :
        reward_halving_len \in 1..MaxHalvingLen} :
        height \in 0..MaxHeight}

InitCandidate ==
    /\ InitMiner
    /\ hit_test = NoHitTest
    /\ candidate \in Candidates

\* retarget up to blk.update_merkle_root(): the mempool's transactions, then
\* the coinbase with the reward, blk.txs.append(coinbase)
retarget_build ==
    /\ ~candidate.done
    /\ \E index \in Seeds :
         LET reward == Reward(candidate.height, candidate.initial_reward,
                              candidate.reward_halving_len,
                              candidate.mempool.total_fees)
             txs == Block_add_transactions(candidate.txs,
                                           candidate.mempool.transactions)
         IN  candidate' = [candidate EXCEPT
                             !.txs = Append(txs, Coinbase(reward, index)),
                             !.done = TRUE]
    /\ UNCHANGED <<mining_thread, block_cb, tx_cb, target_block, hashrate,
                   mined_block, stop_event, retarget_event, reduce_local_diff,
                   blocks, ctl, threads, ret, taken, hit_test, lock>>

NextCandidate == retarget_build

SpecCandidate == InitCandidate /\ [][NextCandidate]_vars


\* --------------------------------------------------------- the properties

\* What a step leaves alone when all it does is raise
OnlyRetChanges ==
    UNCHANGED <<mining_thread, block_cb, tx_cb, target_block, hashrate,
                mined_block, stop_event, retarget_event, reduce_local_diff,
                blocks, ctl, threads, taken, lock>>

\* A call of op returns or raises in this step
Returns(op) == ret' # ret /\ ret'.op = op

\* Thread t reads self.target_block in this step
Reads(t) == threads[t].pc \in {"begin", "wait"} /\ threads'[t].pc = "wait_stop"

\* Thread t is inside its search loop
Searching(t) == threads[t].pc \in {"loop", "batch", "found", "rate", "stop_check"}

\* C1: when retarget() published a candidate while thread t was searching,
\* the next value of target_block that t reads is that candidate or one
\* published after it, never None and never an older block.
C1_NextReadIsNewCandidate ==
    [][\A t \in ThreadIds :
         Reads(t) /\ threads[t].pending # None
           => /\ threads'[t].target_block # None
              /\ threads'[t].target_block >= threads[t].pending]_vars

\* C2: the first value of target_block a newly spawned thread reads is a
\* block, not None.
C2_FirstReadIsCandidate ==
    [][\A t \in ThreadIds :
         Reads(t) /\ threads[t].pc = "begin"
           => threads'[t].target_block # None]_vars

\* C3: a block in mined_block stays there until get_mined_block returns it:
\* the only step that changes a non-empty mined_block is a get_mined_block
\* that returns that block and leaves None.
C3_MinedBlockKeptUntilTaken ==
    [][mined_block # None /\ mined_block' # mined_block
         => /\ ret'.op = "get_mined_block"
            /\ ret'.blk = mined_block
            /\ mined_block' = None]_vars

\* C4: get_mined_block leaves mined_block empty, and no block is returned by
\* two get_mined_block calls.
C4_NoBlockTakenTwice ==
    /\ \A b \in 1..MaxBlocks : taken[b] <= 1
    /\ ret.op = "get_mined_block" /\ ret.blk # None => mined_block # ret.blk

\* C5: while self.mining_thread is set, start_mining does not get past its
\* check (no callback registered, no event cleared, no thread spawned), and
\* the call raises MinerIsRunningException and changes nothing else.
C5_StartWhileRunningRaises ==
    [][mining_thread # None /\ ctl = "idle"
         => /\ ctl' \notin {"start_retarget", "start_spawn"}
            /\ block_cb' <= block_cb /\ tx_cb' <= tx_cb
            /\ Returns("start_mining")
                 => /\ ret'.exc = "MinerIsRunningException"
                    /\ OnlyRetChanges]_vars

C5_Witness ==
    /\ ret = Ret("start_mining", "MinerIsRunningException")
    /\ mining_thread # None
    /\ Alive(mining_thread)

\* C6: while self.mining_thread is None, stop_mining and get_hashrate raise
\* MinerIsNotRunningException and change nothing else: stop_mining does not
\* get past its check.
C6_NotRunningRaises ==
    [][mining_thread = None
         => /\ ctl' # "stop_join"
            /\ Returns("stop_mining") \/ Returns("get_hashrate")
                 => /\ ret'.exc = "MinerIsNotRunningException"
                    /\ OnlyRetChanges]_vars

\* stop_mining raised after a stop_mining whose join timed out
C6_Witness ==
    /\ ret = Ret("stop_mining", "MinerIsNotRunningException")
    /\ mining_thread = None
    /\ \E t \in ThreadIds : Alive(t)

\* C7: a thread begins at most one batch after stop_event.set().
C7_AtMostOneBatchAfterStop ==
    \A t \in ThreadIds : threads[t].since_stop <= 1

\* C8: when stop_mining returns, joined or timed out, both callbacks are
\* unregistered, stop_event is set and self.mining_thread is None; this
\* lasts until the next start_mining, which does not raise, while a
\* stop_mining then raises MinerIsNotRunningException.
C8_StoppedAfterStop ==
    /\ [][ctl = "stop_join" /\ ctl' = "idle"
            => /\ block_cb' = 0 /\ tx_cb' = 0
               /\ stop_event'
               /\ mining_thread' = None
               /\ ret' = Ret("stop_mining", "")]_vars
    /\ [][ctl = "idle" /\ mining_thread = None /\ blocks # <<>>
            => /\ block_cb = 0 /\ tx_cb = 0
               /\ stop_event
               /\ Returns("stop_mining")
                    => ret'.exc = "MinerIsNotRunningException"
               /\ ~(Returns("start_mining")
                      /\ ret'.exc = "MinerIsRunningException")]_vars

\* stop_mining has returned with the thread still alive, and a start_mining
\* after it has gone through
C8_Witness ==
    /\ ret = Ret("start_mining", "")
    /\ Cardinality({t \in ThreadIds : Alive(t)}) = 2

\* C9: at most one mining thread is alive and searching.
C9_AtMostOneThreadSearching ==
    Cardinality({t \in ThreadIds : Alive(t) /\ Searching(t)}) <= 1

\* C10: the threshold is 2^(8L - d), with d replaced by max(d - 10, 1) in
\* reduced-local-difficulty mode, and a digest is accepted exactly when its
\* big-endian value is strictly below the threshold.
C10_ThresholdAndHit ==
    hit_test.done =>
        LET d == IF hit_test.reduce
                 THEN (IF hit_test.diff - 10 > 1 THEN hit_test.diff - 10 ELSE 1)
                 ELSE hit_test.diff
            threshold == 2 ^ (8 * hit_test.hash_len - d)
        IN  /\ hit_test.target_hash = threshold
            /\ hit_test.accepted <=> hit_test.value < threshold

\* threshold - 1 accepted, with two digest bytes and a reduced difficulty
C10_Witness ==
    /\ hit_test.done
    /\ hit_test.reduce
    /\ hit_test.diff > 11
    /\ hit_test.hash_len = 2
    /\ hit_test.value = hit_test.target_hash - 1
    /\ hit_test.accepted

\* The coinbase of a built candidate: the transaction with the dummy input
IsCoinbase(tx) == Len(tx.inputs) = 1 /\ Len(tx.outputs) = 1 /\ tx.txid = 0

CoinbaseAmounts ==
    {candidate.txs[i].outputs[1].amount :
       i \in {j \in DOMAIN candidate.txs : IsCoinbase(candidate.txs[j])}}

\* C11: the candidate has one coinbase, with one output, whose amount is
\* floor(R / 2^(h div H)) + F for the height h, the halving interval H, the
\* initial reward R and the mempool's total fees F.
C11_CoinbaseAmount ==
    candidate.done =>
        LET h == candidate.height
            H == candidate.reward_halving_len
            R == candidate.initial_reward
            F == candidate.mempool.total_fees
        IN  CoinbaseAmounts = {(R \div (2 ^ (h \div H))) + F}

\* past the second halving, a reward the division rounds down, fees on top
C11_Witness ==
    /\ candidate.done
    /\ candidate.height = 2 * candidate.reward_halving_len
    /\ candidate.initial_reward % 4 # 0
    /\ candidate.initial_reward > 4
    /\ candidate.mempool.total_fees > 0
    /\ CoinbaseAmounts = {1 + candidate.mempool.total_fees}

\* C12: the coinbase is the first transaction of the candidate, and the
\* mempool's transactions follow it in the order of the snapshot.
C12_CoinbaseFirst ==
    candidate.done =>
        /\ IsCoinbase(candidate.txs[1])
        /\ SubSeq(candidate.txs, 2, Len(candidate.txs))
             = candidate.mempool.transactions

\* C13: a published candidate C stays in target_block until a later
\* retarget() replaces it or a thread mines C itself: the only steps that
\* change a non-empty target_block publish a new block, or are the hit that
\* moves this very block to mined_block.  A hit on another, older candidate
\* leaves it alone.
C13_CandidateStaysUntilReplacedOrMined ==
    [][target_block # None /\ target_block' # target_block
         => \/ /\ Len(blocks') = Len(blocks) + 1
               /\ target_block' = Len(blocks')
            \/ /\ target_block' = None
               /\ mined_block' = target_block]_vars

\* Thread t publishes its hit in this step
Publishes(t) == threads[t].pc = "found" /\ threads'[t].pc = "rate"

\* Thread t computes the hashes of a batch in this step
Hashes(t) == threads[t].pc = "batch" /\ threads'[t].pc # "batch"

\* C14: the step that publishes a hit puts the candidate, carrying the
\* winning nonce, in mined_block, empties target_block and sets
\* retarget_event, all at once; and the thread computes no hash while it
\* holds no candidate, that is from its hit until it has read a block from
\* target_block again.
C14_HitPublishesThenWaits ==
    [][\A t \in ThreadIds :
         /\ Publishes(t)
              => /\ mined_block' = threads[t].target_block
                 /\ blocks'[mined_block'].nonce = threads[t].nonce
                 /\ IsHit(crypto_h(serialize_header(blocks'[mined_block']),
                                   HASH_LEN),
                          threads[t].target_hash)
                 /\ target_block' = None
                 /\ retarget_event'
                 /\ threads'[t].target_block = None
         /\ Hashes(t) => threads[t].target_block # None]_vars

\* Thread t writes self.hashrate in this step
WritesRate(t) == threads[t].pc = "rate" /\ threads'[t].pc = "stop_check"

\* retarget writes self.target_block in this step
Retargets == Len(blocks') = Len(blocks) + 1

\* h enters a with self.lock block in this step, and nobody else holds the lock
Enters(h) == lock = {} /\ lock' = {h}

\* C15: every step that reads or writes target_block, mined_block or hashrate
\* is made by a thread that enters a with self.lock block in that step, with
\* the lock free before; and the lock never has two holders.
C15_FieldsOnlyUnderLock ==
    [][/\ Cardinality(lock') <= 1
       /\ \A t \in ThreadIds :
            Reads(t) \/ Publishes(t) \/ WritesRate(t) => Enters(Thread(t))
       /\ Retargets => \/ Enters(Caller("start_mining"))
                       \/ Enters(Caller("retarget_callback"))
       /\ Returns("get_hashrate") /\ ret'.exc = ""
            => Enters(Caller("get_hashrate"))
       /\ Returns("get_mined_block") => Enters(Caller("get_mined_block"))
       /\ \/ target_block' # target_block
          \/ mined_block' # mined_block
          \/ hashrate' # hashrate
          => \E h \in Holders : Enters(h)]_vars

\* get_mined_block holds the lock, having taken a block, while both mining
\* threads wait for the lock: one to publish a hit, one to read the target
C15_Witness ==
    /\ lock = {Caller("get_mined_block")}
    /\ ret.op = "get_mined_block" /\ ret.blk # None
    /\ \E t, u \in ThreadIds :
         threads[t].pc = "found" /\ threads[u].pc = "wait"

C17_EventsWrittenUnderLock ==
    [][stop_event' # stop_event \/ retarget_event' # retarget_event
         => \E h \in Holders : Enters(h)]_vars

\* Thread t lives through this step
Lives(t) == Alive(t) /\ threads'[t].pc \notin {"unborn", "returned", "crashed"}

\* The hash of nonce under the prefix and threshold thread t searches with
Hit(t, nonce) ==
    IsHit(crypto_h(threads[t].prefix \o struct_pack_Q(nonce), HASH_LEN),
          threads[t].target_hash)

\* C18: while a thread lives its nonce is never reset and never decreases;
\* it changes only in a batch, by one per hash that misses (every nonce from
\* the old value up to the new one missed, and the new one is the hit when
\* the batch ends in a hit); and the thread hashes no nonce twice with the
\* same candidate's prefix.
C18_NonceGrowsNoRetest ==
    [][\A t \in ThreadIds :
         /\ Lives(t)
              => /\ threads'[t].nonce >= threads[t].nonce
                 /\ threads'[t].nonce # threads[t].nonce => Hashes(t)
         /\ Lives(t) /\ Hashes(t)
              => /\ \A n \in threads[t].nonce..(threads'[t].nonce - 1) :
                      ~Hit(t, n)
                 /\ threads'[t].pc = "found" => Hit(t, threads'[t].nonce)
                 /\ threads'[t].pc = "rate"
                      => threads'[t].nonce = threads[t].nonce + BatchSize
         /\ Hashes(t) /\ threads[t].hashed # <<>>
              => \/ threads[t].hashed[1] # threads[t].prefix
                 \/ threads[t].hashed[2] < threads[t].nonce]_vars

\* C19: with one mining thread alive, if that thread is in its search loop
\* holding candidate T and retarget_event is clear, self.target_block is T.
C19_NoLostWakeup ==
    \A t \in ThreadIds :
        /\ {u \in ThreadIds : Alive(u)} = {t}
        /\ Searching(t)
        /\ threads[t].target_block # None
        /\ ~retarget_event
        => target_block = threads[t].target_block

\* The digest of a block's header, as an integer
HeaderHash(blk) == IntFromBytesBig(crypto_h(serialize_header(blk), HASH_LEN))

====
